---- MODULE Spec2Model ----
(***************************************************************************)
(* A model of htmx-rcon: the binary (Source) RCON client RconConnection,   *)
(* the JSON (Rust) RCON client RconWebSocket, and the per-browser session  *)
(* of createBridge that drives one of them.                                *)
(*                                                                         *)
(* A client is a record; every method and every event handler of a client  *)
(* is an operator from client records to client records.  Promises are     *)
(* fields that settle once; timers are a list in creation order (all       *)
(* timers of a client have the same duration, this.timeout, so they expire *)
(* in creation order); events emitted to listeners and promise             *)
(* settlements are collected in the order the handler produces them, so    *)
(* that the session can run its listeners and its await continuations.     *)
(***************************************************************************)
EXTENDS Integers, Sequences, FiniteSets, TLC

\* ---------------------------------------------------------------- bounds
\* transports (connect() calls that open a socket) per client
MaxSock == 2
\* exec() calls per client
MaxExec == 2
\* frames with a body that the server sends while a command is awaited
MaxRx == 2
\* upstream clients one session creates
MaxClients == 2
\* messages the browser sends on one socket
MaxMsgs == 3
\* code points of a packet body
MaxBody == 2
\* exec calls made on top of the commands already pending
MaxCalls == 3
\* frames of one byte stream of the server
MaxFrames == 2
\* times a client's identifiers go round the id cycle
MaxLaps == 1

\* ------------------------------------------------------ program constants
SERVERDATA_AUTH == 3
SERVERDATA_AUTH_RESPONSE == 2
SERVERDATA_EXECCOMMAND == 2
SERVERDATA_RESPONSE_VALUE == 0
SENTINEL_ID == 9999
\* the modulus of _nextId
IdCycle == 9000
\* the id of the AUTH frame connect() sends
AuthId == 0

\* Strings are sequences of tokens, so that += is \o.
Empty == << >>
NoResponse == << "(no response)" >>
TimedOut == << "(no response - timed out)" >>
\* a JSON frame without a Message field
Absent == << "undefined" >>
\* a body of white space only
Blank == << " " >>
\* no frame yet
NoFrame == << "none" >>

Socks == 1..MaxSock
Execs == 1..MaxExec

\* ------------------------------------------------------------ the client

\* constructor: RconConnection ("source") or RconWebSocket ("rust")
NewClient(proto, listeners) ==
  [ proto         |-> proto,
    socket        |-> 0,
    requestId     |-> IF proto = "source" THEN 1 ELSE 0,
    authenticated |-> FALSE,
    pendingAuth   |-> 0,
    pending       |-> << >>,
    timers        |-> << >>,
    sock          |-> [s \in Socks |-> "unused"],
    connP         |-> [s \in Socks |-> [st |-> "none", why |-> "", dead |-> FALSE]],
    execP         |-> [e \in Execs |-> [st |-> "none", val |-> Empty, how |-> "",
                                         id |-> 0, cmd |-> "",
                                         calls |-> 0, dead |-> FALSE, fired |-> FALSE,
                                         atClose |-> FALSE,
                                         heard |-> Empty, sentinel |-> FALSE,
                                         own |-> Empty, first |-> NoFrame,
                                         late |-> FALSE]],
    written       |-> << >>,
    nrx           |-> 0,
    wired         |-> listeners,
    crashed       |-> FALSE,
    destroyed     |-> FALSE,
    wroteDead     |-> FALSE,
    laps          |-> 0,
    emitted       |-> << >>,
    settled       |-> << >> ]

\* get connected()
Connected(c) ==
  /\ c.socket # 0
  /\ IF c.proto = "source"
       THEN c.sock[c.socket] \in {"connecting", "open"}
       ELSE c.sock[c.socket] = "open"

\* this.emit(name, ...): listeners run synchronously, in order
Emit(c, ev) == [c EXCEPT !.emitted = Append(@, ev)]

\* clearTimeout(t)
ClearTimer(c, t) == [c EXCEPT !.timers = SelectSeq(@, LAMBDA x : x # t)]

\* resolve()/reject() of the promise of connect call s: a promise settles once
SettleConn(c, s, st, why) ==
  IF c.connP[s].st = "pending"
    THEN [c EXCEPT !.connP[s].st = st, !.connP[s].why = why,
                   !.settled = Append(@, <<"connect", s>>)]
    ELSE c

\* resolve()/reject() of the promise of exec call e
SettleExec(c, e, st, val, how) ==
  IF c.execP[e].st = "pending"
    THEN [c EXCEPT !.execP[e].st = st, !.execP[e].val = val, !.execP[e].how = how,
                   !.execP[e].calls = @ + 1,
                   !.settled = Append(@, <<"exec", e>>)]
    ELSE [c EXCEPT !.execP[e].calls = @ + 1]

\* the counter without the modulus
NextIdNoWrap(c) == c.requestId + 1
\* _nextId()
NextId(c) == (c.requestId % IdCycle) + 1

\* Map.prototype.has / get / delete / set on _pending, a list in insertion order
PendingHas(p, id) == \E i \in 1..Len(p) : p[i].id = id
PendingGetOldest(p, id) == Head(p)
PendingGet(p, id) == p[CHOOSE i \in 1..Len(p) : p[i].id = id]
PendingDeleteNone(p, id) == p
PendingDelete(p, id) == SelectSeq(p, LAMBDA x : x.id # id)
PendingSet(p, id, entry) ==
  IF PendingHas(p, id)
    THEN [i \in 1..Len(p) |-> IF p[i].id = id THEN entry ELSE p[i]]
    ELSE Append(p, entry)

\* _sendRaw(buf): writes only if connected, and to this._socket
SendRaw(c, frame) ==
  IF Connected(c)
    THEN [c EXCEPT !.written = Append(@, frame), !.wroteDead = @ \/ c.destroyed]
    ELSE c

\* socket.destroy() (net) / ws.terminate() (ws) on transport s
Terminate(c, s) ==
  IF c.proto = "source"
    THEN [c EXCEPT !.sock[s] = IF @ \in {"connecting", "open"} THEN "closing" ELSE @]
    ELSE [c EXCEPT !.sock[s] = CASE @ = "connecting" -> "aborting"
                                 [] @ = "open" -> "closing"
                                 [] OTHER -> @]

\* destroy()
Destroy(c) ==
  LET c1 == IF c.socket # 0 THEN [Terminate(c, c.socket) EXCEPT !.socket = 0] ELSE c
  IN [c1 EXCEPT !.authenticated = FALSE, !.pending = << >>, !.destroyed = TRUE]

\* connect(), when it opens transport s
ConnectNew(c, s) ==
  [c EXCEPT !.socket = s,
            !.sock[s] = "connecting",
            !.connP[s] = [st |-> "pending", why |-> "", dead |-> c.destroyed],
            !.timers = Append(@, <<"connect", s>>)]

\* connect(): when connected it returns a promise that is resolved at once,
\* <<"connect", 0>>, and opens nothing
Connect(c, s) ==
  IF Connected(c) THEN [c EXCEPT !.settled = Append(@, <<"connect", 0>>)]
                  ELSE ConnectNew(c, s)

\* the callback of net.createConnection: the TCP connection of s is established
OnConnect(c, s) ==
  SendRaw([c EXCEPT !.sock[s] = "open", !.pendingAuth = s],
          [id |-> AuthId, type |-> SERVERDATA_AUTH, body |-> "password"])

\* ws.on('open')
OnOpen(c, s) ==
  SettleConn(Emit([ClearTimer(c, <<"connect", s>>)
                     EXCEPT !.sock[s] = "open", !.authenticated = TRUE],
                  <<"authenticated">>),
             s, "resolved", "")

\* an earlier command of the Source client timed out and no frame with the
\* sentinel id has arrived since it was sent: the echo of its sentinel is
\* still to come
EchoDue(c, e) ==
  /\ c.proto = "source"
  /\ \E d \in Execs : d < e /\ c.execP[d].how = "timeout" /\ ~c.execP[d].sentinel

\* exec(command), call number e (late: whether an echo was due at the call)
Exec(c, e, cmd) ==
  LET id == NextId(c)
      p0 == [c EXCEPT !.execP[e] = [@ EXCEPT !.st = "pending", !.cmd = cmd,
                                              !.dead = c.destroyed,
                                              !.late = EchoDue(c, e)]]
      ok == IF c.proto = "source" THEN c.authenticated ELSE Connected(c)
      reg == [p0 EXCEPT !.requestId = id,
                        !.execP[e].id = id,
                        !.pending = PendingSet(@, id, [id |-> id, body |-> Empty, owner |-> e]),
                        !.timers = Append(@, <<"exec", e>>)]
  IN IF ~ok
       THEN SettleExec(p0, e, "rejected", Empty,
                       IF c.proto = "source" THEN "Not authenticated" ELSE "Not connected")
       ELSE IF c.proto = "source"
         THEN SendRaw(SendRaw(reg, [id |-> id, type |-> SERVERDATA_EXECCOMMAND, body |-> cmd]),
                      [id |-> SENTINEL_ID, type |-> SERVERDATA_RESPONSE_VALUE, body |-> ""])
         ELSE [reg EXCEPT !.written = Append(@, [id |-> id, type |-> SERVERDATA_EXECCOMMAND,
                                                  body |-> cmd]),
                          !.wroteDead = @ \/ c.destroyed]

\* the timeout always answers with the accumulated body
TimeoutValueBody(c, entry) == entry.body

\* what the exec timeout resolves with: entry.body || '(no response)' on the
\* Source client, '(no response - timed out)' on the Rust client
TimeoutValue(c, entry) ==
  IF c.proto = "source"
    THEN IF entry.body = Empty THEN NoResponse ELSE entry.body
    ELSE TimedOut

\* the setTimeout callback of exec call e
ExecTimeout(c, e) ==
  LET id == c.execP[e].id
      c0 == [ClearTimer(c, <<"exec", e>>) EXCEPT !.execP[e].fired = TRUE]
  IN IF PendingHas(c.pending, id)
       THEN LET entry == PendingGet(c.pending, id)
                c1 == [c0 EXCEPT !.pending = PendingDelete(@, id)]
            IN SettleExec(c1, e, "resolved", TimeoutValue(c, entry), "timeout")
       ELSE c0

\* the setTimeout callback of the connect call that opened s
ConnectTimeout(c, s) ==
  LET c0 == ClearTimer(c, <<"connect", s>>)
  IN IF c.proto = "source"
       THEN SettleConn(Destroy(c0), s, "rejected", "Timeout")
       ELSE SettleConn(IF c0.socket # 0 THEN Terminate(c0, c0.socket) ELSE c0,
                       s, "rejected", "Timeout")

\* body + pkt.body, with the operands swapped
AccumulateSwapped(body, pkt) == pkt.body \o body

\* this._pending.get(pkt.id).body += pkt.body
Accumulate(body, pkt) == body \o pkt.body

\* _handlePacket(pkt)
HandlePacket(c, pkt) ==
  LET auth == c.pendingAuth # 0
  IN IF auth /\ pkt.type = SERVERDATA_AUTH_RESPONSE
       THEN LET c0 == ClearTimer(c, <<"connect", c.pendingAuth>>)
            IN IF pkt.id = -1
                 THEN Destroy([SettleConn(Emit([c0 EXCEPT !.authenticated = FALSE],
                                               <<"auth-failed">>),
                                          c.pendingAuth, "rejected", "AuthRejected")
                                 EXCEPT !.pendingAuth = 0])
                 ELSE [SettleConn(Emit([c0 EXCEPT !.authenticated = TRUE],
                                       <<"authenticated">>),
                                  c.pendingAuth, "resolved", "")
                         EXCEPT !.pendingAuth = 0]
     ELSE IF auth /\ pkt.type = SERVERDATA_RESPONSE_VALUE /\ pkt.id \in {-1, 0}
       THEN c
     ELSE IF pkt.id = SENTINEL_ID
       THEN IF Len(c.pending) > 0
              THEN LET entry == Head(c.pending)
                   IN SettleExec(Emit([c EXCEPT !.pending = Tail(@)],
                                      <<"response", entry.id, entry.body>>),
                                 entry.owner, "resolved", entry.body, "sentinel")
              ELSE c
     ELSE IF pkt.type = SERVERDATA_RESPONSE_VALUE /\ PendingHas(c.pending, pkt.id)
       THEN [c EXCEPT !.pending =
               [i \in 1..Len(c.pending) |->
                  IF c.pending[i].id = pkt.id
                    THEN [c.pending[i] EXCEPT !.body = Accumulate(c.pending[i].body, pkt)]
                    ELSE c.pending[i]]]
     ELSE c

\* _handleMessage(msg)
HandleMessage(c, msg) ==
  LET id == msg.id
      body == IF msg.body = Absent THEN Empty ELSE msg.body
  IN IF id = -1 \/ id = 0
       THEN Emit(c, <<"server-message", body>>)
     ELSE IF PendingHas(c.pending, id)
       THEN LET entry == PendingGet(c.pending, id)
            IN SettleExec(Emit([c EXCEPT !.pending = PendingDelete(@, id)],
                               <<"response", id, body>>),
                          entry.owner, "resolved", body, "response")
     ELSE Emit(c, <<"server-message", body>>)

\* The bodies the server sends are distinct tokens, in the order it sends them:
\* the clients never look into a body (only whether it is empty), so the
\* order of arrival can be read off a concatenation.
Tokens == <<"a", "b", "c", "d", "e", "f">>
Bodies == {<<Tokens[k]>> : k \in 1..Len(Tokens)}
NextBody(c) == <<Tokens[c.nrx + 1]>>

\* What the server sent to exec call e, recorded as frame f arrives:
\*   heard    the bodies of all RESPONSE_VALUE frames since the call, up to the
\*            first frame with the sentinel id
\*   sentinel a frame with the sentinel id arrived since the call
\*   own      the bodies of the RESPONSE_VALUE frames with the call's id that
\*            arrived while its promise was unsettled
\*   first    the Message of the first frame with the call's id since the call
Record(x, f, proto) ==
  IF x.st = "none" THEN x
  ELSE IF proto = "source"
    THEN [x EXCEPT
      !.heard = IF x.st = "pending" /\ ~x.sentinel /\ f.id # SENTINEL_ID
                   /\ f.type = SERVERDATA_RESPONSE_VALUE
                  THEN @ \o f.body ELSE @,
      !.sentinel = @ \/ f.id = SENTINEL_ID,
      !.own = IF x.st = "pending" /\ f.id = x.id /\ f.type = SERVERDATA_RESPONSE_VALUE
                THEN @ \o f.body ELSE @]
    ELSE [x EXCEPT
      !.first = IF @ = NoFrame /\ f.id = x.id /\ x.id # 0 THEN f.body ELSE @]

\* socket.on('data') / ws.on('message'): one complete frame arrives
OnFrame(c, f) ==
  LET c0 == [c EXCEPT !.execP = [e \in Execs |-> Record(c.execP[e], f, c.proto)],
                      !.nrx = IF f.body \in Bodies /\ (\E e \in Execs : c.execP[e].st = "pending")
                                THEN @ + 1 ELSE @]
  IN IF c.proto = "source" THEN HandlePacket(c0, f) ELSE HandleMessage(c0, f)

\* this.emit('error', err): without a listener EventEmitter throws, and the
\* exception leaves the handler (and, uncaught, ends the process)
OnError(c, s) ==
  LET c0 == [ClearTimer(c, <<"connect", s>>) EXCEPT !.sock[s] = "closing"]
  IN IF c.wired = 0
       THEN [c0 EXCEPT !.crashed = TRUE]
     ELSE IF c.proto = "source"
       THEN IF c0.pendingAuth # 0
              THEN [SettleConn(Emit(c0, <<"error">>), c0.pendingAuth, "rejected", "Transport")
                      EXCEPT !.pendingAuth = 0]
              ELSE Emit(c0, <<"error">>)
       ELSE IF ~c0.authenticated
              THEN SettleConn(Emit(c0, <<"error">>), s, "rejected", "Transport")
              ELSE Emit(c0, <<"error">>)

RECURSIVE RejectAll(_, _)
\* for (const [id, entry] of this._pending) entry.reject(new Error('Connection closed'))
RejectAll(c, p) ==
  IF p = << >> THEN c
  ELSE RejectAll(SettleExec(c, Head(p).owner, "rejected", Empty, "Connection closed"), Tail(p))

\* socket.on('close') / ws.on('close') of transport s
OnClose(c, s) ==
  LET c0 == [c EXCEPT !.sock[s] = "closed",
                      !.execP = [e \in Execs |->
                                   [@[e] EXCEPT !.atClose = @ \/ c.execP[e].st = "pending"]]]
  IN IF c.proto = "source"
       THEN Emit([c0 EXCEPT !.authenticated = FALSE, !.socket = 0], <<"close">>)
       ELSE LET wasAuthed == c.authenticated
                c1 == [ClearTimer(c0, <<"connect", s>>)
                         EXCEPT !.authenticated = FALSE, !.socket = 0]
                c2 == IF ~wasAuthed
                        THEN SettleConn(Emit(c1, <<"auth-failed">>), s, "rejected", "AuthRejected")
                        ELSE Emit(c1, <<"close">>)
            IN [RejectAll(c2, c2.pending) EXCEPT !.pending = << >>]

\* the states of transport s in which each event can happen
CanConnect(c, s) == c.proto = "source" /\ c.sock[s] = "connecting"
CanOpen(c, s) == c.proto = "rust" /\ c.sock[s] = "connecting"
CanFrame(c, s) == c.sock[s] = "open"
CanError(c, s) ==
  IF c.proto = "source" THEN c.sock[s] \in {"connecting", "open"}
                        ELSE c.sock[s] \in {"connecting", "open", "aborting"}
CanClose(c, s) ==
  IF c.proto = "source" THEN c.sock[s] \in {"open", "closing"}
                        ELSE c.sock[s] \in {"connecting", "open", "closing"}

\* the server sends at most MaxRx frames with a body
Room(c, f) == f.body \in Bodies => c.nrx < MaxRx

\* the listeners have run: nothing emitted or settled is left to deliver
Fresh(c) == [c EXCEPT !.emitted = << >>, !.settled = << >>, !.written = << >>]

\* ------------------------------------------------- what the server may send
CmdIds == 1..(MaxExec + 1)

\* Source RCON packets
BinFrames(b) ==
  {[id |-> i, type |-> SERVERDATA_AUTH_RESPONSE, body |-> Empty] : i \in {-1, AuthId, 1}}
  \cup {[id |-> i, type |-> SERVERDATA_RESPONSE_VALUE, body |-> Empty] : i \in {-1, 0, SENTINEL_ID}}
  \cup {[id |-> i, type |-> SERVERDATA_RESPONSE_VALUE, body |-> b] : i \in CmdIds}

\* Rust RCON messages (Identifier, Message)
JsonFrames(b) ==
  {[id |-> i, type |-> 0, body |-> x] : i \in {-1, 0}, x \in {b, Blank}}
  \cup {[id |-> i, type |-> 0, body |-> x] : i \in CmdIds, x \in {b, Absent}}

Frames(c) == IF c.proto = "source" THEN BinFrames(NextBody(c)) ELSE JsonFrames(NextBody(c))

\* the command strings a browser sends, and String.prototype.trim on them
Commands == {"status", "quit", " quit ", "  "}
Trim(cmd) ==
  CASE cmd = " quit " -> "quit"
    [] cmd = "  " -> ""
    [] OTHER -> cmd

\* ------------------------------------------------------ a client on its own
VARIABLES client, session, codec, helper, stream, issuer, feed

vars == <<client, session, codec, helper, stream, issuer, feed>>

\* the state of the parts a specification does not run
aside == <<codec, helper, stream, issuer, feed>>

\* no browser socket
NoSession == [protocol |-> "none"]
NoCodec == [stage |-> "off"]
NoHelper == [ws |-> "none"]
NoStream == [ws |-> "none"]
NoIssuer == [proto |-> "none"]
NoFeed == [stage |-> "off"]

\* new RconConnection(options) or new RconWebSocket(options), with an 'error' listener
InitClient ==
  /\ \E proto \in {"source", "rust"} : client = NewClient(proto, 1)
  /\ session = NoSession
  /\ feed = NoFeed
  /\ codec = NoCodec
  /\ helper = NoHelper
  /\ stream = NoStream
  /\ issuer = NoIssuer

\* the caller calls connect()
CallConnect ==
  /\ ~client.crashed
  /\ UNCHANGED <<session, aside>>
  /\ \/ /\ Connected(client)
        /\ client' = Connect(Fresh(client), 0)
     \/ /\ ~Connected(client)
        /\ \E s \in Socks :
             /\ client.sock[s] = "unused"
             /\ \A t \in Socks : t < s => client.sock[t] # "unused"
             /\ client' = Fresh(ConnectNew(client, s))

\* the caller calls exec(cmd)
CallExec ==
  /\ ~client.crashed
  /\ UNCHANGED <<session, aside>>
  /\ \E e \in Execs, cmd \in {"status"} :
       /\ client.execP[e].st = "none"
       /\ \A d \in Execs : d < e => client.execP[d].st # "none"
       /\ client' = Fresh(Exec(client, e, cmd))

\* the caller calls destroy()
CallDestroy ==
  /\ ~client.crashed
  /\ UNCHANGED <<session, aside>>
  /\ client' = Fresh(Destroy(client))

\* the TCP connection of a Source client is established
SockConnect ==
  /\ ~client.crashed
  /\ UNCHANGED <<session, aside>>
  /\ \E s \in Socks : CanConnect(client, s) /\ client' = Fresh(OnConnect(client, s))

\* the WebSocket of a Rust client opens
SockOpen ==
  /\ ~client.crashed
  /\ UNCHANGED <<session, aside>>
  /\ \E s \in Socks : CanOpen(client, s) /\ client' = Fresh(OnOpen(client, s))

\* a frame of the server arrives
SockFrame ==
  /\ ~client.crashed
  /\ UNCHANGED <<session, aside>>
  /\ \E s \in Socks, f \in Frames(client) :
       /\ CanFrame(client, s)
       /\ Room(client, f)
       /\ client' = Fresh(OnFrame(client, f))

\* the transport reports an error
SockError ==
  /\ ~client.crashed
  /\ UNCHANGED <<session, aside>>
  /\ \E s \in Socks : CanError(client, s) /\ client' = Fresh(OnError(client, s))

\* the transport closes
SockClose ==
  /\ ~client.crashed
  /\ UNCHANGED <<session, aside>>
  /\ \E s \in Socks : CanClose(client, s) /\ client' = Fresh(OnClose(client, s))

\* the oldest armed timer expires
FireTimer(c) ==
  LET t == Head(c.timers)
  IN IF t[1] = "connect" THEN ConnectTimeout(c, t[2]) ELSE ExecTimeout(c, t[2])

TimerExpires ==
  /\ ~client.crashed
  /\ UNCHANGED <<session, aside>>
  /\ client.timers # << >>
  /\ client' = Fresh(FireTimer(client))

NextClient ==
  \/ CallConnect
  \/ CallExec
  \/ CallDestroy
  \/ SockConnect
  \/ SockOpen
  \/ SockFrame
  \/ SockError
  \/ SockClose
  \/ TimerExpires

SpecClient == InitClient /\ [][NextClient]_vars

\* ------------------------------------------------------------- the session
\* One browser socket of createBridge: the closure of the 'connection'
\* handler (rcon, authenticated), the clients it has created, the timers of
\* all of them in creation order (they all last options.timeout), and the
\* state of the browser socket.

Clients == 1..MaxClients

\* a fragment of fmt.response / fmt.error / fmt.auth / fmt.serverMessage
Frag(kind, text, cmd, body) == [kind |-> kind, text |-> text, cmd |-> cmd, body |-> body]

\* a browser message, as JSON.parse and the two shapes of the handler see it
Msg(kind, ok, cmd) == [kind |-> kind, ok |-> ok, cmd |-> cmd]
\* the message the last handler was given: its kind, whether an auth payload
\* had host and password, its command after trim, whether onCommand was
\* called for it, whether the browser socket was open
NoMsg == [kind |-> "none", ok |-> FALSE, cmd |-> "", asked |-> FALSE, open |-> FALSE]

\* the closure of wss.on('connection') before the auth mode is looked at
NewSession(protocol, authMode, onCommand) ==
  [ protocol      |-> protocol,
    authMode      |-> authMode,
    onCommand     |-> onCommand,
    rcon          |-> 0,
    authenticated |-> FALSE,
    ws            |-> "OPEN",
    clients       |-> [k \in Clients |-> NewClient(protocol, 0)],
    made          |-> 0,
    tq            |-> << >>,
    sent          |-> << >>,
    last          |-> NoMsg,
    nmsg          |-> 0,
    crashed       |-> FALSE ]

\* safeSend(ws, data)
SafeSend(s, frag) == IF s.ws = "OPEN" THEN [s EXCEPT !.sent = Append(@, frag)] ELSE s

\* ws.close() on the browser socket
WsClose(s) == [s EXCEPT !.ws = IF @ = "OPEN" THEN "CLOSING" ELSE @]

\* an exception nobody catches: thrown by a listener-less emit('error'), or
\* the rejection of the promise of the async message handler
Uncaught(s) == [s EXCEPT !.crashed = TRUE]

InSeq(x, q) == \E i \in 1..Len(q) : q[i] = x

\* setTimeout / clearTimeout of client k, seen from the one timer list of the
\* process: c2 is the client after its handler ran
SyncTimers(s, k, c2) ==
  LET kept == SelectSeq(s.tq, LAMBDA x : x[1] # k \/ InSeq(x[2], c2.timers))
      new == SelectSeq(c2.timers, LAMBDA t : ~InSeq(t, s.clients[k].timers))
  IN kept \o [i \in 1..Len(new) |-> <<k, new[i]>>]

\* rcon = createRcon(...)
CreateRcon(s) == [s EXCEPT !.made = @ + 1, !.rcon = s.made + 1]

\* wireRconEvents(rconClient), rconClient being the session's rcon variable
WireRconEvents(s) ==
  IF s.rcon = 0 THEN Uncaught(s)
  ELSE [s EXCEPT !.clients[s.rcon].wired = @ + 1]

\* body.trim()
BodyTrim(body) == IF body = Blank THEN Empty ELSE body

\* the listeners of one wireRconEvents call, run for event ev
Listener(s, ev) ==
  CASE ev[1] = "error" -> SafeSend(s, Frag("error", "RCON error", "", Empty))
    [] ev[1] = "close" ->
         SafeSend([s EXCEPT !.authenticated = FALSE],
                  Frag("auth-fail", "RCON connection closed.", "", Empty))
    [] ev[1] = "server-message" ->
         IF s.protocol = "rust" /\ BodyTrim(ev[2]) # Empty
           THEN SafeSend(s, Frag("server", "", "", ev[2]))
           ELSE s
    [] OTHER -> s

RECURSIVE Listeners(_, _, _)
\* an event reaches every registered listener, in registration order
Listeners(s, ev, n) == IF n = 0 THEN s ELSE Listeners(Listener(s, ev), ev, n - 1)

RECURSIVE Dispatch(_, _, _)
\* the events one handler of a client emitted, in order
Dispatch(s, evs, n) ==
  IF evs = << >> THEN s ELSE Dispatch(Listeners(s, Head(evs), n), Tail(evs), n)

\* what follows rcon.connect() of client k once its promise settles
AfterConnect(s, k, p) ==
  IF s.authMode = "server"
    THEN IF p.st = "resolved"
           THEN SafeSend([s EXCEPT !.authenticated = TRUE], Frag("auth-ok", "", "", Empty))
           ELSE WsClose(SafeSend(s, Frag("auth-fail", p.why, "", Empty)))
    ELSE WireRconEvents(
           IF p.st = "resolved"
             THEN SafeSend([s EXCEPT !.authenticated = TRUE], Frag("auth-ok", "", "", Empty))
             ELSE SafeSend(s, Frag("auth-fail", p.why, "", Empty)))

\* what follows await rcon.exec(command) once its promise settles
AfterExec(s, k, p) ==
  IF p.st = "resolved"
    THEN SafeSend(s, Frag("response", "", p.cmd, p.val))
    ELSE SafeSend(s, Frag("error", "Command failed", p.cmd, Empty))

RECURSIVE Continue(_, _, _)
\* the continuations of the promises of client k that one handler settled
Continue(s, k, done) ==
  IF done = << >> \/ s.crashed THEN s
  ELSE LET d == Head(done)
           c == s.clients[k]
           s1 == IF d[1] = "connect" THEN AfterConnect(s, k, c.connP[d[2]])
                                     ELSE AfterExec(s, k, c.execP[d[2]])
       IN Continue(s1, k, Tail(done))

\* a method or handler of client k ran and left it as c2: its listeners run
\* inside it, the continuations of what it settled right after it
Ran(s, k, c2) ==
  LET s1 == [s EXCEPT !.clients[k] = c2, !.tq = SyncTimers(s, k, c2)]
  IN IF c2.crashed THEN Uncaught(s1)
     ELSE Continue(Dispatch(s1, c2.emitted, s.clients[k].wired), k, c2.settled)

\* nothing of the previous handler is left to deliver
Quiet(s) ==
  [s EXCEPT !.sent = << >>, !.last = NoMsg,
            !.clients = [k \in Clients |-> Fresh(s.clients[k])]]

\* if (rcon) { rcon.destroy(); rcon = null; }
DropRcon(s) ==
  IF s.rcon = 0 THEN s
  ELSE [Ran(s, s.rcon, Destroy(s.clients[s.rcon])) EXCEPT !.rcon = 0]

\* the body of wss.on('connection') after the closure is set up
Connection(s) ==
  IF s.authMode = "server"
    THEN LET s1 == CreateRcon(s)
             s2 == Ran(s1, s1.rcon, Connect(s1.clients[s1.rcon], 1))
         IN WireRconEvents(s2)
    ELSE s

\* the hook's answer is not looked at
BlockedIgnored(s, cmd) == FALSE

\* onCommand(command, ws) === false, for the hook that refuses quit
Blocked(s, cmd) == s.onCommand = "blockQuit" /\ cmd = "quit"

\* the first exec call of a client that has not been made
NextExec(c) ==
  IF \E e \in Execs : c.execP[e].st = "none"
    THEN CHOOSE e \in Execs : c.execP[e].st = "none" /\ \A d \in 1..(e - 1) : c.execP[d].st # "none"
    ELSE 0

\* only a missing client counts as not connected
DisconnectedIfNoRcon(s) == s.rcon = 0

\* !authenticated || !rcon || !rcon.connected
Disconnected(s) == ~s.authenticated \/ s.rcon = 0 \/ ~Connected(s.clients[s.rcon])

\* the auth branch is taken whatever the authenticated flag says
HonorsAlways(s) == s.authMode = "client"

\* authMode === 'client' && !authenticated
Honors(s) == s.authMode = "client" /\ ~s.authenticated

\* the command pipeline of the message handler
Command(s0, raw) ==
  LET cmd == Trim(raw)
      s == [s0 EXCEPT !.last.cmd = cmd, !.last.asked = cmd # "" /\ s0.onCommand # "none"]
  IN IF cmd = ""
       THEN SafeSend(s0, Frag("error", "Empty command.", cmd, Empty))
     ELSE IF Blocked(s, cmd)
       THEN SafeSend(s, Frag("error", "Command blocked", cmd, Empty))
     ELSE IF Disconnected(s)
       THEN SafeSend(s, Frag("error", "Not connected to RCON server.", cmd, Empty))
     ELSE LET c == s.clients[s.rcon]
          IN Ran(s, s.rcon, Exec(c, NextExec(c), cmd))

\* the client-side auth branch of the message handler
ClientAuth(s, m) ==
  IF m.kind = "auth"
    THEN IF ~m.ok
           THEN SafeSend(s, Frag("auth-fail", "Missing host or password.", "", Empty))
           ELSE LET s1 == CreateRcon(s)
                IN Ran(s1, s1.rcon, Connect(s1.clients[s1.rcon], 1))
    ELSE SafeSend(s, Frag("error", "Not authenticated.", "", Empty))

\* ws.on('message')
OnMessage(s, m) ==
  LET s0 == [s EXCEPT !.nmsg = @ + 1,
                      !.last = [kind |-> m.kind, ok |-> m.ok, cmd |-> "", asked |-> FALSE,
                                open |-> s.ws = "OPEN"]]
  IN IF m.kind = "garbage"
       THEN SafeSend(s0, Frag("error", "Invalid message format.", "", Empty))
     ELSE IF m.kind = "null"
       THEN Uncaught(s0)
     ELSE IF Honors(s)
       THEN ClientAuth(s0, m)
     ELSE Command(s0, m.cmd)

\* the messages a browser sends: text that is not JSON, the JSON null, an auth
\* payload with or without host and password, a command, an empty object
Messages ==
  {Msg("garbage", FALSE, ""), Msg("null", FALSE, ""), Msg("other", FALSE, ""),
   Msg("auth", TRUE, ""), Msg("auth", FALSE, "")}
  \cup {Msg("command", FALSE, cmd) : cmd \in Commands}

\* the handler of m can run within the bounds of the model
CanMessage(s, m) ==
  /\ s.ws # "CLOSED"
  /\ s.nmsg < MaxMsgs
  /\ IF m.kind \in {"garbage", "null"} THEN TRUE
     ELSE IF Honors(s)
       THEN (m.kind = "auth" /\ m.ok) => s.made < MaxClients
       ELSE (Trim(m.cmd) # "" /\ ~Blocked(s, Trim(m.cmd)) /\ ~Disconnected(s))
            => NextExec(s.clients[s.rcon]) # 0

\* ws.on('close') of the browser socket
OnWsClose(s) == [DropRcon(s) EXCEPT !.authenticated = FALSE, !.ws = "CLOSED"]

\* ws.on('error') of the browser socket; its 'close' follows
OnWsError(s) == [DropRcon(s) EXCEPT !.ws = "CLOSING"]

InitBridge ==
  /\ client = NewClient("source", 0)
  /\ feed = NoFeed
  /\ codec = NoCodec
  /\ helper = NoHelper
  /\ stream = NoStream
  /\ issuer = NoIssuer
  /\ \E protocol \in {"source", "rust"}, authMode \in {"server", "client"},
        onCommand \in {"none", "blockQuit"} :
       session = Connection(NewSession(protocol, authMode, onCommand))

\* the browser sends a message
BrowserMessage ==
  /\ ~session.crashed
  /\ UNCHANGED <<client, aside>>
  /\ \E m \in Messages :
       /\ CanMessage(session, m)
       /\ session' = OnMessage(Quiet(session), m)

\* the browser socket closes
BrowserClose ==
  /\ ~session.crashed
  /\ UNCHANGED <<client, aside>>
  /\ session.ws # "CLOSED"
  /\ session' = OnWsClose(Quiet(session))

\* the browser socket fails
BrowserError ==
  /\ ~session.crashed
  /\ UNCHANGED <<client, aside>>
  /\ session.ws = "OPEN"
  /\ session' = OnWsError(Quiet(session))

\* the TCP connection of client k is established
UpConnect ==
  /\ ~session.crashed
  /\ UNCHANGED <<client, aside>>
  /\ \E k \in Clients :
       /\ k <= session.made
       /\ CanConnect(session.clients[k], 1)
       /\ LET s == Quiet(session) IN session' = Ran(s, k, OnConnect(s.clients[k], 1))

\* the WebSocket of client k opens
UpOpen ==
  /\ ~session.crashed
  /\ UNCHANGED <<client, aside>>
  /\ \E k \in Clients :
       /\ k <= session.made
       /\ CanOpen(session.clients[k], 1)
       /\ LET s == Quiet(session) IN session' = Ran(s, k, OnOpen(s.clients[k], 1))

\* the transport of client k reports an error
UpError ==
  /\ ~session.crashed
  /\ UNCHANGED <<client, aside>>
  /\ \E k \in Clients :
       /\ k <= session.made
       /\ CanError(session.clients[k], 1)
       /\ LET s == Quiet(session) IN session' = Ran(s, k, OnError(s.clients[k], 1))

\* the transport of client k closes
UpClose ==
  /\ ~session.crashed
  /\ UNCHANGED <<client, aside>>
  /\ \E k \in Clients :
       /\ k <= session.made
       /\ CanClose(session.clients[k], 1)
       /\ LET s == Quiet(session) IN session' = Ran(s, k, OnClose(s.clients[k], 1))

\* a frame of the server arrives at client k
UpFrame ==
  /\ ~session.crashed
  /\ UNCHANGED <<client, aside>>
  /\ \E k \in Clients :
       /\ k <= session.made
       /\ CanFrame(session.clients[k], 1)
       /\ \E f \in Frames(session.clients[k]) :
            /\ Room(session.clients[k], f)
            /\ LET s == Quiet(session) IN session' = Ran(s, k, OnFrame(s.clients[k], f))

\* two frames of the server arrive at client k in one chunk: both are handled
\* in the same turn of the event loop, before any continuation runs (when the
\* first frame settles nothing this is UpFrame twice, so that case is left
\* to UpFrame)
UpBurst ==
  /\ ~session.crashed
  /\ UNCHANGED <<client, aside>>
  /\ \E k \in Clients :
       /\ k <= session.made
       /\ CanFrame(session.clients[k], 1)
       /\ \E f \in Frames(session.clients[k]) :
            /\ Room(session.clients[k], f)
            /\ LET s == Quiet(session)
                   c1 == OnFrame(s.clients[k], f)
               IN /\ CanFrame(c1, 1)
                  /\ ~c1.crashed
                  /\ c1.settled # << >>
                  /\ \E g \in Frames(c1) :
                       /\ Room(c1, g)
                       /\ session' = Ran(s, k, OnFrame(c1, g))

\* the oldest armed timer of the process expires
UpTimer ==
  /\ ~session.crashed
  /\ UNCHANGED <<client, aside>>
  /\ session.tq # << >>
  /\ LET s == Quiet(session)
         k == Head(s.tq)[1]
     IN session' = Ran(s, k, FireTimer(s.clients[k]))

NextBridge ==
  \/ BrowserMessage
  \/ BrowserClose
  \/ BrowserError
  \/ UpConnect
  \/ UpOpen
  \/ UpFrame
  \/ UpBurst
  \/ UpError
  \/ UpClose
  \/ UpTimer

SpecBridge == InitBridge /\ [][NextBridge]_vars

\* --------------------------------------------------- the binary packet codec

\* the four bytes of v in two's complement, most significant byte first
WriteInt32BE(v) ==
  LET w == IF v < 0 THEN (v + 2147483647) + 1 ELSE v
  IN << (w \div 16777216) + (IF v < 0 THEN 128 ELSE 0), (w \div 65536) % 256,
        (w \div 256) % 256, w % 256 >>
\* Buffer.writeInt32LE(v, offset): the four bytes written, two's complement,
\* least significant byte first
WriteInt32LE(v) ==
  LET w == IF v < 0 THEN (v + 2147483647) + 1 ELSE v
  IN << w % 256, (w \div 256) % 256, (w \div 65536) % 256,
        (w \div 16777216) + (IF v < 0 THEN 128 ELSE 0) >>

\* Buffer.readInt32LE(offset) on a buffer that has the four bytes
ReadInt32LE(buf, offset) ==
  LET low == buf[offset + 1] + 256 * buf[offset + 2] + 65536 * buf[offset + 3]
      top == buf[offset + 4]
  IN IF top >= 128 THEN (((top - 128) * 16777216 + low) - 2147483647) - 1
                   ELSE top * 16777216 + low

\* the UTF-8 bytes of one code point
Utf8Char(cp) ==
  IF cp < 128 THEN << cp >>
  ELSE IF cp < 2048 THEN << 192 + (cp \div 64), 128 + (cp % 64) >>
  ELSE IF cp < 65536
    THEN << 224 + (cp \div 4096), 128 + ((cp \div 64) % 64), 128 + (cp % 64) >>
  ELSE << 240 + (cp \div 262144), 128 + ((cp \div 4096) % 64),
          128 + ((cp \div 64) % 64), 128 + (cp % 64) >>

RECURSIVE Utf8Bytes(_)
\* Buffer.from(body, 'utf8'), body being a sequence of code points
Utf8Bytes(body) ==
  IF body = << >> THEN << >> ELSE Utf8Char(Head(body)) \o Utf8Bytes(Tail(body))

\* byte b continues a UTF-8 sequence
Continues(bytes, i) == i <= Len(bytes) /\ bytes[i] >= 128 /\ bytes[i] < 192

REPLACEMENT == 65533

RECURSIVE Utf8Text(_)
\* buf.toString('utf8'): the code points of the bytes; a byte that starts no
\* complete sequence decodes to U+FFFD
Utf8Text(bytes) ==
  IF bytes = << >> THEN << >>
  ELSE LET b == bytes[1]
           n == IF b < 128 THEN 1
                ELSE IF b >= 192 /\ b < 224 /\ Continues(bytes, 2) THEN 2
                ELSE IF b >= 224 /\ b < 240 /\ Continues(bytes, 2) /\ Continues(bytes, 3) THEN 3
                ELSE IF b >= 240 /\ b < 248 /\ Continues(bytes, 2) /\ Continues(bytes, 3)
                        /\ Continues(bytes, 4) THEN 4
                ELSE 0
           cp == CASE n = 1 -> b
                   [] n = 2 -> (b - 192) * 64 + (bytes[2] - 128)
                   [] n = 3 -> (b - 224) * 4096 + (bytes[2] - 128) * 64 + (bytes[3] - 128)
                   [] n = 4 -> (b - 240) * 262144 + (bytes[2] - 128) * 4096
                               + (bytes[3] - 128) * 64 + (bytes[4] - 128)
                   [] OTHER -> REPLACEMENT
           used == IF n = 0 THEN 1 ELSE n
       IN << cp >> \o Utf8Text(SubSeq(bytes, used + 1, Len(bytes)))

\* Buffer.prototype.slice(start, end): a negative index counts from the end,
\* both are clamped to the buffer
Slice(buf, start, end) ==
  LET n == Len(buf)
      a == IF start < 0 THEN (IF n + start < 0 THEN 0 ELSE n + start)
           ELSE IF start > n THEN n ELSE start
      b == IF end < 0 THEN (IF n + end < 0 THEN 0 ELSE n + end)
           ELSE IF end > n THEN n ELSE end
  IN SubSeq(buf, a + 1, b)

\* encodePacket(id, type, body)
encodePacket(id, type, body) ==
  LET bodyBuf == Utf8Bytes(body)
      size == 4 + 4 + Len(bodyBuf) + 1 + 1
  IN WriteInt32LE(size) \o WriteInt32LE(id) \o WriteInt32LE(type) \o bodyBuf \o << 0 >> \o << 0 >>

\* what decodePacket gives: a packet, null, or the RangeError of a read
\* past the end of the buffer
Decoded(kind, id, type, body, totalLength) ==
  [kind |-> kind, id |-> id, type |-> type, body |-> body, totalLength |-> totalLength]
Null == Decoded("null", 0, 0, << >>, 0)
RangeError == Decoded("RangeError", 0, 0, << >>, 0)

\* decodePacket(buf)
decodePacket(buf) ==
  IF Len(buf) < 4 THEN Null
  ELSE LET size == ReadInt32LE(buf, 0)
           totalLength == 4 + size
       IN IF Len(buf) < totalLength THEN Null
          ELSE IF Len(buf) < 12 THEN RangeError
          ELSE Decoded("packet", ReadInt32LE(buf, 4), ReadInt32LE(buf, 8),
                       Utf8Text(Slice(buf, 12, totalLength - 2)), totalLength)

RECURSIVE Drain(_, _)
\* _onData's loop on the receive buffer: the packets it hands to
\* _handlePacket, what stays buffered, and how it ends: it waits for more
\* bytes, the exception of decodePacket leaves the handler, or it never ends
\* (the buffer is the same after an iteration)
Drain(buf, pkts) ==
  LET packet == decodePacket(buf)
  IN IF packet.kind = "null" THEN [recvBuf |-> buf, pkts |-> pkts, ends |-> "waits"]
     ELSE IF packet.kind = "RangeError" THEN [recvBuf |-> buf, pkts |-> pkts, ends |-> "throws"]
     ELSE LET rest == Slice(buf, packet.totalLength, Len(buf))
          IN IF rest = buf THEN [recvBuf |-> buf, pkts |-> pkts, ends |-> "spins"]
             ELSE Drain(rest, Append(pkts, packet))

\* _onData(chunk) on an empty receive buffer; the loop emits no event itself
OnData(chunk) == Drain(chunk, << >>)

\* the arguments the codec is exercised with
MinInt32 == -2147483647 - 1
MaxInt32 == 2147483647
PacketIds == {MinInt32, -256, -1, 0, 1, 255, 256, SENTINEL_ID, 65536, MaxInt32}
PacketTypes == {SERVERDATA_RESPONSE_VALUE, SERVERDATA_EXECCOMMAND, SERVERDATA_AUTH}
\* NUL, newline, A, e-acute, the euro sign, an emoji: one to four bytes each
CodePoints == {0, 10, 65, 233, 8364, 128512}
PacketBodies == UNION {[1..n -> CodePoints] : n \in 0..MaxBody}
\* size fields a server may declare
Sizes == {-4, -1, 0, 4, 8, 9, 10, 11, 12, 14}

\* a frame of the server whose size field says size
Declared(size, id, body) ==
  WriteInt32LE(size) \o WriteInt32LE(id) \o WriteInt32LE(SERVERDATA_RESPONSE_VALUE)
    \o Utf8Bytes(body) \o << 0, 0 >>

\* the codec before it is used: with a packet to encode (args), or with
\* bytes of the server in hand whose first four declare size
Codec(stage, args, size, buf) ==
  [stage |-> stage, args |-> args, size |-> size, buf |-> buf, out |-> Null,
   data |-> OnData(<< >>)]

InitCodec ==
  /\ client = NewClient("source", 0)
  /\ feed = NoFeed
  /\ session = NoSession
  /\ helper = NoHelper
  /\ stream = NoStream
  /\ issuer = NoIssuer
  /\ \/ \E id \in PacketIds, type \in PacketTypes, body \in PacketBodies :
          codec = Codec("args", <<id, type, body>>, 0, << >>)
     \/ \E size \in Sizes, id \in {-1, 1}, body \in PacketBodies :
          \E n \in 0..Len(Declared(size, id, body)) :
            codec = Codec("bytes", << >>, size, SubSeq(Declared(size, id, body), 1, n))

\* encodePacket(id, type, body)
Encode ==
  /\ UNCHANGED <<client, session, helper, stream, issuer, feed>>
  /\ codec.stage = "args"
  /\ codec' = [codec EXCEPT !.stage = "bytes",
                            !.buf = encodePacket(codec.args[1], codec.args[2], codec.args[3])]

\* decodePacket(buf), and _onData(buf) on an empty receive buffer
Decode ==
  /\ UNCHANGED <<client, session, helper, stream, issuer, feed>>
  /\ codec.stage = "bytes"
  /\ codec' = [codec EXCEPT !.stage = "decoded", !.out = decodePacket(codec.buf),
                            !.data = OnData(codec.buf)]

NextCodec == Encode \/ Decode

SpecCodec == InitCodec /\ [][NextCodec]_vars

\* ------------------------------------- the WebSocket of the stateless variants

\* msg.Message || ''
MessageOf(body) == IF body = Absent THEN Empty ELSE body

\* A WebSocket of the ws package as execRcon and the stream handler use it:
\* its readyState, and why it is closing ("abort": closed or terminated
\* before it was open, which the package reports by 'error' and then 'close')
Ws(state, how) == [state |-> state, how |-> how]

\* new WebSocket(url)
NewWs == Ws("CONNECTING", "")

\* ws.close()
CloseWs(w) ==
  CASE w.state = "CONNECTING" -> Ws("CLOSING", "abort")
    [] w.state = "OPEN" -> Ws("CLOSING", "close")
    [] OTHER -> w

\* ws.terminate()
TerminateWs(w) ==
  CASE w.state = "CONNECTING" -> Ws("CLOSING", "abort")
    [] w.state = "OPEN" -> Ws("CLOSING", "terminate")
    [] w.state = "CLOSING" /\ w.how = "close" -> Ws("CLOSING", "terminate")
    [] OTHER -> w

\* the events the package may deliver next
MayOpen(w) == w.state = "CONNECTING"
MayMessage(w) == w.state = "OPEN" \/ (w.state = "CLOSING" /\ w.how = "close")
MayError(w) == w.state \in {"CONNECTING", "OPEN"} \/ (w.state = "CLOSING" /\ w.how = "abort")
MayClose(w) == w.state = "OPEN" \/ (w.state = "CLOSING" /\ w.how # "abort")

\* ------------------------------------------------------------------ execRcon

\* execRcon(host, port, password, command) up to the return of its executor:
\* the socket is connecting, the 8 s timer is armed, the promise is pending.
\* calls counts the calls of resolve and reject; first is the first of the
\* four deciding events that happened
NewHelper(id) ==
  [ id |-> id, ws |-> NewWs, settled |-> FALSE, timer |-> TRUE,
    promise |-> [st |-> "pending", val |-> Empty], calls |-> 0,
    first |-> <<"none">>, sends |-> 0, nrx |-> 0 ]

\* resolve(value) / reject(new Error(why)): a promise keeps its first outcome
SettleHelper(h, st, val) ==
  [h EXCEPT !.calls = @ + 1,
            !.promise = IF @.st = "pending" THEN [st |-> st, val |-> val] ELSE @]

\* the deciding event ev happened
Decides(h, ev) == [h EXCEPT !.first = IF @ = <<"none">> THEN ev ELSE @]

\* the frame answers any command
MatchesAny(h, msg) == TRUE
\* msg.Identifier === id
Matches(h, msg) == msg.id = h.id

\* the 'open' listener
HelperOnOpen(h) == [h EXCEPT !.ws = Ws("OPEN", ""), !.sends = @ + 1]

\* the 'message' listener; raw that is not JSON is ignored
HelperOnMessage(h, msg) ==
  LET h0 == [h EXCEPT !.nrx = @ + 1]
  IN IF ~msg.json THEN h0
     ELSE IF Matches(h0, msg) /\ ~h0.settled
       THEN SettleHelper([h0 EXCEPT !.settled = TRUE, !.timer = FALSE, !.ws = CloseWs(@)],
                         "resolved", IF msg.body = Absent THEN Empty ELSE msg.body)
     ELSE h0

\* the 'error' listener
HelperOnError(h) ==
  LET h0 == [h EXCEPT !.ws = Ws("CLOSING", "error")]
  IN IF ~h0.settled
       THEN SettleHelper([h0 EXCEPT !.settled = TRUE, !.timer = FALSE],
                         "rejected", <<"Connection failed">>)
       ELSE h0

\* the 'close' listener
HelperOnClose(h) ==
  LET h0 == [h EXCEPT !.ws = Ws("CLOSED", "")]
  IN IF ~h0.settled
       THEN SettleHelper([h0 EXCEPT !.settled = TRUE, !.timer = FALSE],
                         "rejected", <<"Connection closed">>)
       ELSE h0

\* the callback of setTimeout(..., 8000)
HelperOnTimeout(h) ==
  LET h0 == [h EXCEPT !.timer = FALSE]
  IN IF ~h0.settled
       THEN SettleHelper([h0 EXCEPT !.settled = TRUE, !.ws = TerminateWs(@)],
                         "rejected", <<"timed out">>)
       ELSE h0

\* Math.floor(Math.random() * 9000) + 1 (demo/api/rcon.js) and + 1000
\* (htmx-rcon-node/dev-server.js): the ends of both ranges
HelperIds == {1, 9000, 1000, 9999}

\* what the server may send to execRcon
HelperFrames(h) ==
  {[json |-> TRUE, id |-> i, body |-> x] :
     i \in {h.id, h.id + 1, 0, -1}, x \in {<<Tokens[h.nrx + 1]>>, Absent}}
  \cup {[json |-> FALSE, id |-> 0, body |-> Absent]}

InitHelper ==
  /\ client = NewClient("source", 0)
  /\ feed = NoFeed
  /\ session = NoSession
  /\ codec = NoCodec
  /\ stream = NoStream
  /\ issuer = NoIssuer
  /\ \E id \in HelperIds : helper = NewHelper(id)

\* the WebSocket opens
HelperOpen ==
  /\ UNCHANGED <<client, session, codec, stream, issuer, feed>>
  /\ MayOpen(helper.ws)
  /\ helper' = HelperOnOpen(helper)

\* a frame of the server arrives
HelperMessage ==
  /\ UNCHANGED <<client, session, codec, stream, issuer, feed>>
  /\ MayMessage(helper.ws)
  /\ helper.nrx < MaxRx
  /\ \E msg \in HelperFrames(helper) :
       helper' = HelperOnMessage(IF msg.json /\ msg.id = helper.id
                                   THEN Decides(helper, <<"frame", msg.body>>)
                                   ELSE helper, msg)

\* the WebSocket reports an error
HelperError ==
  /\ UNCHANGED <<client, session, codec, stream, issuer, feed>>
  /\ MayError(helper.ws)
  /\ helper' = HelperOnError(Decides(helper, <<"error">>))

\* the WebSocket is closed
HelperClose ==
  /\ UNCHANGED <<client, session, codec, stream, issuer, feed>>
  /\ MayClose(helper.ws)
  /\ helper' = HelperOnClose(Decides(helper, <<"close">>))

\* the 8 s have passed
HelperTimeout ==
  /\ UNCHANGED <<client, session, codec, stream, issuer, feed>>
  /\ helper.timer
  /\ helper' = HelperOnTimeout(Decides(helper, <<"deadline">>))

NextHelper == HelperOpen \/ HelperMessage \/ HelperError \/ HelperClose \/ HelperTimeout

\* an armed timer of Node expires
SpecHelper == InitHelper /\ [][NextHelper]_vars /\ WF_vars(HelperTimeout)

\* ------------------------------------------------------- the SSE stream

\* the stream handler up to its return: the SSE headers are written, the
\* heartbeat interval is armed, the WebSocket is connecting. gone: the
\* browser has disconnected (req 'close'); last: what was written last;
\* late: a write happened after the stream had ended
NewStream(variant) ==
  [ variant |-> variant, ws |-> NewWs, heartbeat |-> TRUE, res |-> "open",
    gone |-> FALSE, last |-> IF variant = "vite" THEN "connecting" ELSE "headers",
    late |-> "", nrx |-> 0, eventId |-> 0 ]

\* res.write(chunk)
ResWrite(st, what) ==
  [st EXCEPT !.last = what,
             !.late = IF st.res = "ended" THEN "afterEnd"
                      ELSE IF st.gone /\ @ = "" THEN "afterDisconnect" ELSE @]

\* the setInterval callback
StreamOnHeartbeat(st) == ResWrite(st, "heartbeat")

\* the 'open' listener
StreamOnOpen(st) == ResWrite([st EXCEPT !.ws = Ws("OPEN", ""), !.eventId = @ + 1], "connected")

\* msg.Identifier !== undefined && msg.Identifier <= 0, and text.trim()
Pushes(msg) == msg.json /\ msg.hasId /\ msg.id <= 0 /\ BodyTrim(MessageOf(msg.body)) # Empty

\* the 'message' listener
StreamOnMessage(st, msg) ==
  LET st0 == [st EXCEPT !.nrx = @ + 1]
  IN IF Pushes(msg) THEN ResWrite([st0 EXCEPT !.eventId = @ + 1], "event") ELSE st0

\* the 'error' listener
StreamOnError(st) == ResWrite([st EXCEPT !.ws = Ws("CLOSING", "error")], "error")

\* the 'close' listener
StreamOnClose(st) ==
  [ResWrite([st EXCEPT !.ws = Ws("CLOSED", "")], "disconnected")
     EXCEPT !.heartbeat = FALSE, !.res = "ended"]

\* req.on('close')
StreamOnReqClose(st) == [st EXCEPT !.gone = TRUE, !.heartbeat = FALSE, !.ws = CloseWs(@)]

\* what the server may send to the stream: Identifier absent, <= 0 or a
\* command's; Message a text, blank or absent; or text that is not JSON
StreamFrames(st) ==
  {[json |-> TRUE, hasId |-> TRUE, id |-> i, body |-> x] :
     i \in {-1, 0, 1}, x \in {<<Tokens[st.nrx + 1]>>, Blank, Absent}}
  \cup {[json |-> TRUE, hasId |-> FALSE, id |-> 0, body |-> <<Tokens[st.nrx + 1]>>]}
  \cup {[json |-> FALSE, hasId |-> FALSE, id |-> 0, body |-> Absent]}

InitStream ==
  /\ client = NewClient("source", 0)
  /\ feed = NoFeed
  /\ session = NoSession
  /\ codec = NoCodec
  /\ helper = NoHelper
  /\ issuer = NoIssuer
  /\ \E variant \in {"demo", "vite"} : stream = NewStream(variant)

\* the upstream WebSocket opens
StreamOpen ==
  /\ UNCHANGED <<client, session, codec, helper, issuer, feed>>
  /\ MayOpen(stream.ws)
  /\ stream' = StreamOnOpen(stream)

\* a frame of the server arrives
StreamMessage ==
  /\ UNCHANGED <<client, session, codec, helper, issuer, feed>>
  /\ MayMessage(stream.ws)
  /\ stream.nrx < MaxRx
  /\ \E msg \in StreamFrames(stream) : stream' = StreamOnMessage(stream, msg)

\* the upstream WebSocket reports an error
StreamError ==
  /\ UNCHANGED <<client, session, codec, helper, issuer, feed>>
  /\ MayError(stream.ws)
  /\ stream' = StreamOnError(stream)

\* the upstream WebSocket is closed
StreamClose ==
  /\ UNCHANGED <<client, session, codec, helper, issuer, feed>>
  /\ MayClose(stream.ws)
  /\ stream' = StreamOnClose(stream)

\* the heartbeat interval elapses
StreamHeartbeat ==
  /\ UNCHANGED <<client, session, codec, helper, issuer, feed>>
  /\ stream.heartbeat
  /\ stream' = StreamOnHeartbeat(stream)

\* the browser disconnects
StreamDisconnect ==
  /\ UNCHANGED <<client, session, codec, helper, issuer, feed>>
  /\ ~stream.gone
  /\ stream' = StreamOnReqClose(stream)

NextStream ==
  \/ StreamOpen
  \/ StreamMessage
  \/ StreamError
  \/ StreamClose
  \/ StreamHeartbeat
  \/ StreamDisconnect

SpecStream == InitStream /\ [][NextStream]_vars

\* ------------------------------------------------- the request identifiers

\* a client whose counter is requestId and that has no command pending; ids
\* are the identifiers of its unsettled commands in the order of the exec
\* calls, calls the exec calls made since
NewIssuer(proto, requestId) ==
  [proto |-> proto, requestId |-> requestId, ids |-> << >>, calls |-> 0]

\* exec(command) of a connected client, as far as the identifier goes:
\* const id = this._nextId()
IssueOne(c) ==
  LET id == NextId(c)
  IN [c EXCEPT !.requestId = id, !.ids = Append(@, id)]

\* exec calls evaluated in one go
Stride == 30

RECURSIVE IssueFew(_, _)
\* n exec calls in a row, none of them settled, n <= Stride
IssueFew(c, n) == IF n = 0 THEN c ELSE IssueOne(IssueFew(c, n - 1))

RECURSIVE IssueSome(_, _)
\* the same for n <= Stride * Stride: Stride calls, then the rest
IssueSome(c, n) ==
  IF n <= Stride THEN IssueFew(c, n)
  ELSE CHOOSE after \in {IssueSome(c1, n - Stride) : c1 \in {IssueFew(c, Stride)}} : TRUE

RECURSIVE Issue(_, _)
\* the same for any n: Stride * Stride calls, then the rest
Issue(c, n) ==
  IF n <= Stride * Stride THEN IssueSome(c, n)
  ELSE CHOOSE after \in {Issue(c1, n - Stride * Stride) :
                          c1 \in {IssueSome(c, Stride * Stride)}} : TRUE

\* the counter of a client: as constructed, and near the end of the cycle
StartIds(proto) == {NewClient(proto, 0).requestId, IdCycle - 1, IdCycle}

\* the commands already pending when the calls of the model start
StartCalls == {0, 1, 2, IdCycle - 2, IdCycle - 1, IdCycle}

InitIssuer ==
  /\ client = NewClient("source", 0)
  /\ feed = NoFeed
  /\ session = NoSession
  /\ codec = NoCodec
  /\ helper = NoHelper
  /\ stream = NoStream
  /\ \E proto \in {"source", "rust"} :
       \E requestId \in StartIds(proto), n \in StartCalls :
         issuer = Issue(NewIssuer(proto, requestId), n)

\* the caller calls exec once more before any command settles
IssuerExec ==
  /\ UNCHANGED <<client, session, codec, helper, stream, feed>>
  /\ issuer.calls < MaxCalls
  /\ issuer' = [IssueOne(issuer) EXCEPT !.calls = @ + 1]

NextIssuer == IssuerExec

SpecIssuer == InitIssuer /\ [][NextIssuer]_vars

\* the client has opened one transport only and it is open: every frame it
\* wrote went to the server that sends the frames it receives
OneTransport(c) ==
  /\ c.socket # 0
  /\ c.sock[c.socket] = "open"
  /\ \A s \in Socks \ {c.socket} : c.sock[s] = "unused"

\* ------------------------------------------ a client whose ids come round

\* The caller makes IdCycle - 1 exec calls, one after the other, each
\* answered by the server before the next is made: the counter has gone
\* almost round when the last of them is settled. (Their timers stay armed
\* like every exec timer; they expire after the timers armed before them and
\* find no entry with their ids, so they are left out of the timer list.)
CallExecLap ==
  /\ ~client.crashed
  /\ UNCHANGED <<session, aside>>
  /\ client.laps < MaxLaps
  /\ OneTransport(client)
  /\ client.authenticated
  /\ client.pending = << >>
  /\ client' = Fresh([client EXCEPT
                        !.requestId = Issue(NewIssuer(client.proto, client.requestId),
                                            IdCycle - 1).requestId,
                        !.laps = @ + 1])

\* a client on a transport that stays up, used for more than 9000 commands
NextWrap ==
  \/ CallConnect
  \/ SockConnect
  \/ SockOpen
  \/ SockFrame
  \/ CallExec
  \/ CallExecLap
  \/ TimerExpires

SpecWrap == InitClient /\ [][NextWrap]_vars

\* ------------------------------------------------------ the receive buffer

\* the chunk alone, the buffered bytes forgotten
ConcatChunkOnly(recvBuf, chunk) == chunk
\* Buffer.concat([this._recvBuf, chunk])
Concat(recvBuf, chunk) == recvBuf \o chunk

\* _onData(chunk) with recvBuf buffered
OnChunk(recvBuf, chunk) == Drain(Concat(recvBuf, chunk), << >>)

\* the packets a server sends in one stream: a response frame and the echo
\* of a sentinel, without a body or with a body of one three-byte character
FeedPackets ==
  {<<id, SERVERDATA_RESPONSE_VALUE, body>> : id \in {1, SENTINEL_ID}, body \in {<< >>, <<8364>>}}

RECURSIVE Wire(_)
\* the bytes of the packets, frame after frame
Wire(packets) ==
  IF packets = << >> THEN << >>
  ELSE encodePacket(Head(packets)[1], Head(packets)[2], Head(packets)[3]) \o Wire(Tail(packets))

\* a Source client with an empty receive buffer, and the bytes the server is
\* about to send it: sent of them have arrived, in chunks 'data' events;
\* pkts are the packets handed to _handlePacket so far
NewFeed(packets) ==
  [ stage |-> "on", packets |-> packets, bytes |-> Wire(packets), sent |-> 0, chunks |-> 0,
    recvBuf |-> << >>, pkts |-> << >>, ends |-> "waits" ]

InitFeed ==
  /\ client = NewClient("source", 0)
  /\ session = NoSession
  /\ codec = NoCodec
  /\ helper = NoHelper
  /\ stream = NoStream
  /\ issuer = NoIssuer
  /\ \E n \in 1..MaxFrames : \E packets \in [1..n -> FeedPackets] : feed = NewFeed(packets)

\* socket.on('data'): the next n bytes of the stream arrive as one chunk
FeedChunk ==
  /\ UNCHANGED <<client, session, codec, helper, stream, issuer>>
  /\ feed.ends = "waits"
  /\ \E n \in 1..(Len(feed.bytes) - feed.sent) :
       LET got == OnChunk(feed.recvBuf, SubSeq(feed.bytes, feed.sent + 1, feed.sent + n))
       IN feed' = [feed EXCEPT !.sent = @ + n, !.chunks = @ + 1,
                               !.recvBuf = got.recvBuf,
                               !.pkts = @ \o got.pkts,
                               !.ends = got.ends]

NextFeed == FeedChunk

SpecFeed == InitFeed /\ [][NextFeed]_vars

\* ------------------------------------------------------------------ claims

\* C1 as stated: an exec of the Source client that a sentinel completes returns
\* the bodies of every RESPONSE_VALUE frame received between its issuance and
\* the next frame with the sentinel id.
C1_ReturnsEveryFrameUntilSentinel ==
  \A e \in Execs :
    (client.proto = "source" /\ client.execP[e].how = "sentinel")
      => client.execP[e].val = client.execP[e].heard

\* C1, amended: an exec of the Source client that a sentinel completes returns the
\* concatenation, in arrival order, of the bodies of the RESPONSE_VALUE frames
\* that carry its own id and arrived between its issuance and the sentinel
\* frame that completes it.
C1_ReturnsOwnFramesUntilSentinel ==
  \A e \in Execs :
    (client.proto = "source" /\ client.execP[e].how = "sentinel")
      => /\ client.execP[e].st = "resolved"
         /\ client.execP[e].val = client.execP[e].own

\* two frames of the command were concatenated and the sentinel completed it
C1_Witness ==
  \E e \in Execs :
    /\ client.proto = "source"
    /\ client.execP[e].how = "sentinel"
    /\ client.execP[e].val = <<"a", "b">>

\* C2: an exec of the Rust client that a response completes returns the Message
\* of the first inbound frame whose Identifier is the id issued for it,
\* whatever pushes and responses to other commands arrived before.
C2_ReturnsFirstMatchingMessage ==
  \A e \in Execs :
    (client.proto = "rust" /\ client.execP[e].how = "response")
      => /\ client.execP[e].st = "resolved"
         /\ client.execP[e].first # NoFrame
         /\ client.execP[e].val = MessageOf(client.execP[e].first)

\* the only command in flight was answered by the second frame that arrived:
\* a push or a frame with another Identifier came first
C2_Witness ==
  /\ client.proto = "rust"
  /\ client.execP[1].how = "response"
  /\ client.execP[1].val = <<"b">>
  /\ client.execP[2].st = "none"

\* the step in which the exec timeout of call e fires while its entry is in
\* the pending table
TimeoutFiresPending(e) ==
  /\ ~client.execP[e].fired
  /\ client'.execP[e].fired
  /\ PendingHas(client.pending, client.execP[e].id)

C4_AfterDestroyAllFails ==
  client.destroyed =>
    /\ ~client.wroteDead
    /\ \A s \in Socks : client.connP[s].dead => client.connP[s].st # "resolved"
    /\ \A e \in Execs : client.execP[e].dead => client.execP[e].st = "rejected"

\* C5: an exec that was unsettled when the upstream connection closed is
\* settled exactly once; once its timeout has fired nothing is left that could
\* settle it.
C5_PendingAtCloseSettledOnce ==
  \A e \in Execs :
    /\ client.execP[e].calls <= 1
    /\ (client.execP[e].atClose /\ client.execP[e].fired)
         => client.execP[e].st # "pending"

\* C6: a step that tears the Rust client's connection down (this._ws becomes
\* null) rejects every command in the pending table with 'Connection closed'
\* and leaves the table empty.
C6_TeardownRejectsPending ==
  [][(client.proto = "rust" /\ client.socket # 0 /\ client'.socket = 0)
       => /\ client'.pending = << >>
          /\ \A i \in 1..Len(client.pending) :
               /\ client'.execP[client.pending[i].owner].st = "rejected"
               /\ client'.execP[client.pending[i].owner].how = "Connection closed"]_vars

\* New, Connecting, Authenticated, Closed
Phase(c) ==
  IF c.authenticated THEN "Authenticated"
  ELSE IF \E s \in Socks : c.sock[s] \in {"connecting", "open"} THEN "Connecting"
  ELSE IF ~c.destroyed /\ \A s \in Socks : c.sock[s] = "unused" THEN "New"
  ELSE "Closed"

\* C7: Closed is terminal.
C7_ClosedIsTerminal ==
  [][Phase(client) = "Closed" => Phase(client') = "Closed"]_vars

\* onCommand returns false for cmd: the hook of the README, which refuses quit
Refused(cmd) == session.onCommand = "blockQuit" /\ cmd = "quit"

\* a transport that client k of the session holds
Holds(k) == k <= session.made /\ session.clients[k].socket # 0

\* C8: a session holds at most one upstream client at a time: never do two
\* clients it created hold a transport that has not been destroyed.
C8_AtMostOneClient ==
  ~session.crashed => Cardinality({k \in Clients : Holds(k)}) <= 1

\* C9: after the close event of the browser socket no client the session
\* created is connected or authenticated.
C9_CloseDestroysUpstream ==
  (session.ws = "CLOSED" /\ ~session.crashed) =>
    \A k \in Clients :
      k <= session.made =>
        ~Connected(session.clients[k]) /\ ~session.clients[k].authenticated

\* C10: a command that onCommand returns false for is answered with the
\* 'Command blocked' error fragment alone (when the browser socket is open to
\* take it) and nothing is written upstream in its handler; no response
\* fragment is ever sent for a refused command and no EXECCOMMAND frame ever
\* carries one.
C10_BlockedCommandIsRefused ==
  /\ (session.last.asked /\ Refused(session.last.cmd)) =>
       /\ session.sent = IF session.last.open
                           THEN <<Frag("error", "Command blocked", session.last.cmd, Empty)>>
                           ELSE << >>
       /\ \A k \in Clients : session.clients[k].written = << >>
  /\ \A i \in 1..Len(session.sent) :
       session.sent[i].kind = "response" => ~Refused(session.sent[i].cmd)
  /\ \A k \in Clients : \A i \in 1..Len(session.clients[k].written) :
       ~Refused(session.clients[k].written[i].body)

\* quit is refused on an open browser socket while the upstream is connected
\* and authenticated
C10_Witness ==
  /\ session.last.asked /\ Refused(session.last.cmd) /\ session.last.open
  /\ session.authenticated /\ session.rcon # 0
  /\ Connected(session.clients[session.rcon])
  /\ session.clients[session.rcon].authenticated
  /\ session.sent # << >>

\* the replies to commands among the fragments of a handler
Replies(sent) ==
  SelectSeq(sent, LAMBDA f : f.kind = "response" \/ (f.kind = "error" /\ f.text = "Command failed"))

\* the reply that the settlement of exec call e of client c asks for
ReplyTo(c, e) ==
  IF c.execP[e].st = "resolved"
    THEN Frag("response", "", c.execP[e].cmd, c.execP[e].val)
    ELSE Frag("error", "Command failed", c.execP[e].cmd, Empty)

\* the replies that the exec promises client c settled in its last handler ask for
Owed(c) ==
  LET done == SelectSeq(c.settled, LAMBDA d : d[1] = "exec")
  IN [i \in 1..Len(done) |-> ReplyTo(c, done[i][2])]

\* the step handles a browser message as a command
HandledAsCommand ==
  /\ session'.last.kind \in {"command", "auth", "other"}
  /\ ~(session.authMode = "client" /\ ~session.authenticated)

\* the step calls exec(cmd) once, on the session's client, and nothing else
CallsExec(cmd) ==
  /\ session.rcon # 0
  /\ \E e \in Execs :
       /\ session.clients[session.rcon].execP[e].st = "none"
       /\ session'.clients[session.rcon].execP[e].st # "none"
       /\ session'.clients[session.rcon].execP[e].cmd = cmd
       /\ \A d \in Execs \ {e} :
            session'.clients[session.rcon].execP[d] = session.clients[session.rcon].execP[d]
  /\ \A k \in Clients \ {session.rcon} : session'.clients[k].execP = session.clients[k].execP

\* the step sends fragment f and nothing else, and calls no exec
OnlyReply(f) ==
  /\ session'.sent = IF session.ws = "OPEN" THEN <<f>> ELSE << >>
  /\ \A k \in Clients : session'.clients[k].execP = session.clients[k].execP

\* the reply the first applicable rule of the command pipeline gives
FirstRule ==
  LET cmd == session'.last.cmd
  IN IF cmd = ""
       THEN OnlyReply(Frag("error", "Empty command.", cmd, Empty))
     ELSE IF Refused(cmd)
       THEN OnlyReply(Frag("error", "Command blocked", cmd, Empty))
     ELSE IF \/ ~session.authenticated
             \/ session.rcon = 0
             \/ ~Connected(session.clients[session.rcon])
       THEN OnlyReply(Frag("error", "Not connected to RCON server.", cmd, Empty))
     ELSE CallsExec(cmd)

\* C11: a browser message handled as a command gets exactly one reply, by the
\* first rule that applies: blank after trim, refused by onCommand, upstream
\* not connected, otherwise exec is called; the settlement of an exec sends
\* exactly its response fragment or its 'Command failed' fragment, no other
\* step sends such a fragment, and while the browser socket is open no exec
\* is left unsettled once its timer has fired.  (A reply is sent only while
\* the browser socket is open.)
C11_OneReplyByFirstRule ==
  [][ ~session'.crashed =>
        /\ HandledAsCommand => FirstRule
        /\ session.ws = "OPEN" =>
             \A k \in Clients :
               \/ Replies(session'.sent) = Owed(session'.clients[k])
               \/ /\ Owed(session'.clients[k]) = << >>
                  /\ \E j \in Clients \ {k} : Owed(session'.clients[j]) # << >>
        /\ session.ws # "OPEN" => Replies(session'.sent) = << >>
        /\ session'.ws = "OPEN" =>
             \A k \in Clients : \A e \in Execs :
               session'.clients[k].execP[e].fired => session'.clients[k].execP[e].st # "pending"
    ]_vars

\* the three error rules and both outcomes of exec have been replied to on
\* an open browser socket: here the response to a command that the upstream
\* answered
C11_Witness ==
  /\ session.ws = "OPEN"
  /\ \E k \in Clients : \E e \in Execs :
       /\ session.clients[k].settled = << <<"exec", e>> >>
       /\ session.clients[k].execP[e].how \in {"sentinel", "response"}
       /\ session.sent = <<Frag("response", "", "status", session.clients[k].execP[e].val)>>

\* C12: a connect() of the Source client never stays pending for ever: while
\* its promise is pending either its timer is armed or its socket can still
\* deliver the event that settles it.
C12_ConnectSettles ==
  client.proto = "source" =>
    \A s \in Socks :
      client.connP[s].st = "pending" =>
        \/ InSeq(<<"connect", s>>, client.timers)
        \/ client.sock[s] \in {"connecting", "open"}

\* frame f arrives at the Source client in this step
Receives(f) ==
  /\ client.proto = "source"
  /\ \E s \in Socks : CanFrame(client, s)
  /\ Room(client, f)
  /\ client' = Fresh(OnFrame(client, f))

\* C13: the connect() of a Source client rejects with AuthRejected on an
\* AUTH_RESPONSE with id -1, and only an AUTH_RESPONSE with the id of the
\* AUTH frame that was sent authenticates the client.
C13_AuthenticatesOnSentId ==
  [][ \A f \in Frames(client) :
        (Receives(f) /\ f.type = SERVERDATA_AUTH_RESPONSE) =>
          /\ (f.id = -1 /\ client.pendingAuth # 0
                /\ client.connP[client.pendingAuth].st = "pending") =>
               /\ client'.connP[client.pendingAuth].st = "rejected"
               /\ client'.connP[client.pendingAuth].why = "AuthRejected"
          /\ (f.id # AuthId /\ ~client.authenticated) => ~client'.authenticated
    ]_vars

\* the outcome a pending connect() of the Rust client must take in this step
\* if the step is an event of its transport s or of its timer
OutcomeOf(s) ==
  IF CanOpen(client, s) /\ client' = Fresh(OnOpen(client, s)) THEN <<"resolved", "">>
  ELSE IF CanClose(client, s) /\ client' = Fresh(OnClose(client, s))
    THEN <<"rejected", "AuthRejected">>
  ELSE IF CanError(client, s) /\ client' = Fresh(OnError(client, s))
    THEN <<"rejected", "Transport">>
  ELSE IF client.timers # << >> /\ Head(client.timers) = <<"connect", s>>
          /\ client' = Fresh(FireTimer(client))
    THEN <<"rejected", "Timeout">>
  ELSE <<"pending", "">>

\* C14: the connect() of a Rust client settles with the outcome of the first
\* of the open, close, error and timer events of its transport: resolved on
\* open (and only then), AuthRejected on close, Transport on error, Timeout
\* on the timer.
C14_FirstEventSettles ==
  [][ (client.proto = "rust" /\ ~client'.crashed) =>
        \A s \in Socks :
          client.connP[s].st = "pending" =>
            /\ client'.connP[s].st = OutcomeOf(s)[1]
            /\ client'.connP[s].why = OutcomeOf(s)[2]
    ]_vars

\* the transports of the client that are in their handshake or established
Live(c) == {s \in Socks : c.sock[s] \in {"connecting", "open"}}

\* C15: connect() is idempotent and resolves only on an authenticated
\* client: a connect() promise that resolves leaves the client authenticated,
\* also when it resolves at once because the client is connected, and the
\* client never has two transports in their handshake or established.
C15_ConnectIdempotent ==
  [][ /\ \A s \in Socks :
           (client.connP[s].st # "resolved" /\ client'.connP[s].st = "resolved")
             => client'.authenticated
      /\ InSeq(<<"connect", 0>>, client'.settled) => client'.authenticated
      /\ Cardinality(Live(client')) <= 1
    ]_vars

\* an auth-failure fragment is among the fragments sent
AuthFailSent(sent) == \E i \in 1..Len(sent) : sent[i].kind = "auth-fail"

\* the connect() of client k was rejected with AuthRejected in this step
AuthRejectedNow(k) ==
  /\ InSeq(<<"connect", 1>>, session'.clients[k].settled)
  /\ session'.clients[k].connP[1].st = "rejected"
  /\ session'.clients[k].connP[1].why = "AuthRejected"

\* C16: when connect() fails with AuthRejected the session sends an
\* auth-failure fragment and closes the browser socket, in both auth modes.
C16_AuthRejectedClosesBrowser ==
  [][ ~session'.crashed =>
        \A k \in Clients :
          AuthRejectedNow(k) =>
            /\ session.ws = "OPEN" => AuthFailSent(session'.sent)
            /\ session'.ws # "OPEN"
    ]_vars

\* the transport of the client of an authenticated session closed or failed
\* in this step
UpstreamLostNow ==
  /\ session.authenticated
  /\ session.rcon # 0
  /\ \/ InSeq(<<"close">>, session'.clients[session.rcon].emitted)
     \/ InSeq(<<"error">>, session'.clients[session.rcon].emitted)

\* C17: when the upstream of an authenticated session closes or errors the
\* session sends an auth-failure fragment and closes the browser socket.
C17_UpstreamLossTerminates ==
  [][ (~session'.crashed /\ UpstreamLostNow) =>
        /\ session.ws = "OPEN" => AuthFailSent(session'.sent)
        /\ session'.ws # "OPEN"
    ]_vars

\* C18: no exception escapes a handler of the session.
C18_NoUncaughtException == ~session.crashed

\* C19: a message that is not JSON, or is JSON of an unknown shape (null, an
\* object that is neither an auth payload nor a command), is answered with
\* the 'Invalid message format.' fragment and changes nothing of the session.
C19_UnknownShapeIsInvalid ==
  [][ session'.last.kind \in {"garbage", "null", "other"} =>
        /\ ~session'.crashed
        /\ session'.sent = IF session.ws = "OPEN"
                             THEN <<Frag("error", "Invalid message format.", "", Empty)>>
                             ELSE << >>
        /\ session'.authenticated = session.authenticated
        /\ session'.rcon = session.rcon
        /\ session'.made = session.made
        /\ session'.ws = session.ws
    ]_vars

\* C20: an auth payload is honored only in authMode client while the session
\* is not authenticated: in authMode server, or once authenticated, an auth
\* message creates no client, leaves rcon and every transport as they are;
\* and a client is created by nothing but an honored auth payload.
C20_AuthOnlyWhenUnauthenticatedClient ==
  [][ ~session'.crashed =>
        /\ (session'.last.kind = "auth"
              /\ (session.authMode = "server" \/ session.authenticated)) =>
             /\ session'.made = session.made
             /\ session'.rcon = session.rcon
             /\ \A k \in Clients : session'.clients[k].sock = session.clients[k].sock
        /\ session'.made # session.made =>
             /\ session'.last.kind = "auth" /\ session'.last.ok
             /\ session.authMode = "client" /\ ~session.authenticated
    ]_vars

\* an auth payload with host and password has reached a session in authMode
\* client that is authenticated and whose client is connected
C20_Witness ==
  /\ session.last.kind = "auth" /\ session.last.ok
  /\ session.authMode = "client"
  /\ session.authenticated
  /\ session.rcon # 0
  /\ Connected(session.clients[session.rcon])
  /\ session.sent = <<Frag("error", "Empty command.", "", Empty)>>

\* the step handles a command in authMode client before authentication
CommandBeforeAuth ==
  /\ session'.last.kind = "command"
  /\ session.authMode = "client" /\ ~session.authenticated

\* the step handles a command that is neither blank nor refused, in authMode
\* client, after connect() has resolved and while the session's client is
\* connected
CommandAfterAuth ==
  /\ session'.last.kind = "command"
  /\ session'.last.cmd # "" /\ ~Refused(session'.last.cmd)
  /\ session.authMode = "client" /\ session.authenticated
  /\ session.rcon # 0 /\ Connected(session.clients[session.rcon])

\* C21: in authMode client a command before authentication is answered with
\* the 'Not authenticated.' error fragment and nothing is executed upstream;
\* once an auth payload has made the upstream connect, a command is executed
\* upstream: exec is called, its frame is written and it is not failed at
\* once.
C21_CommandsAroundAuth ==
  [][ ~session'.crashed =>
        /\ CommandBeforeAuth =>
             /\ OnlyReply(Frag("error", "Not authenticated.", "", Empty))
             /\ \A k \in Clients : session'.clients[k].written = << >>
        /\ CommandAfterAuth =>
             /\ CallsExec(session'.last.cmd)
             /\ session'.clients[session.rcon].written # << >>
             /\ Replies(session'.sent) = << >>
    ]_vars

\* the server fragments that the server-message events of a handler ask for
Forwarded(evs) ==
  LET push == SelectSeq(evs, LAMBDA ev : ev[1] = "server-message" /\ BodyTrim(ev[2]) # Empty)
  IN [i \in 1..Len(push) |-> Frag("server", "", "", push[i][2])]

\* the server fragments among the fragments of a handler
Pushed(sent) == SelectSeq(sent, LAMBDA f : f.kind = "server")

\* C22: the server-message events of a Rust client are forwarded to the
\* (open) browser socket as server fragments, one for each event whose
\* trimmed body is not empty and none for the others; a session on the
\* Source protocol sends no server fragment.
C22_ServerMessagesForwarded ==
  /\ session.protocol = "source" => Pushed(session.sent) = << >>
  /\ (session.protocol = "rust" /\ session.ws = "OPEN" /\ ~session.crashed) =>
       \A k \in Clients :
         \/ Pushed(session.sent) = Forwarded(session.clients[k].emitted)
         \/ /\ session.clients[k].emitted = << >>
            /\ \E j \in Clients \ {k} : session.clients[j].emitted # << >>

\* the frames the classification of the Rust client is checked on: what the
\* server may send now, and pushes with another negative Identifier
Inbound == Frames(client) \cup {[id |-> -2, type |-> 0, body |-> x] : x \in {NextBody(client), Absent}}

\* _handleMessage resolves the command whose Identifier f carries with f's
\* Message, removes its entry and no other, and emits no server-message
ResolvesOnly(f, c2) ==
  \E e \in Execs :
    /\ client.execP[e].id = f.id /\ client.execP[e].st = "pending"
    /\ c2.execP[e].st = "resolved" /\ c2.execP[e].val = MessageOf(f.body)
    /\ \A d \in Execs \ {e} : c2.execP[d] = client.execP[d]
    /\ c2.settled = << <<"exec", e>> >>
    /\ c2.pending = SelectSeq(client.pending, LAMBDA x : x.id # f.id)
    /\ Len(c2.pending) = Len(client.pending) - 1
    /\ \A i \in 1..Len(c2.emitted) : c2.emitted[i][1] # "server-message"

\* _handleMessage emits one server-message with f's Message and touches no command
PushesOnly(f, c2) ==
  /\ c2.emitted = << <<"server-message", MessageOf(f.body)>> >>
  /\ c2.settled = << >>
  /\ c2.pending = client.pending
  /\ c2.execP = client.execP

\* C23: the Rust client puts every inbound frame into exactly one class: a
\* positive Identifier in the pending table resolves that command and
\* removes its entry; every other frame (Identifier <= 0, or an unknown
\* positive Identifier) is emitted as a server-message; never both.
C23_FrameClassification ==
  client.proto = "rust" =>
    \A f \in Inbound :
      LET c2 == HandleMessage(Fresh(client), f)
      IN IF f.id > 0 /\ PendingHas(client.pending, f.id)
           THEN ResolvesOnly(f, c2)
           ELSE PushesOnly(f, c2)

\* a response has resolved one command of a Rust client while another
\* command is still in the pending table
C23_Witness ==
  /\ client.proto = "rust"
  /\ \E e \in Execs, d \in Execs :
       /\ client.execP[e].how = "response"
       /\ client.execP[d].st = "pending"
       /\ PendingHas(client.pending, client.execP[d].id)

\* the place of a body in the order in which the server sent the bodies
Arrival(body) == CHOOSE i \in 1..Len(Tokens) : body = <<Tokens[i]>>

\* the fragments of sent that carry a body of the server
Carried(sent) ==
  SelectSeq(sent, LAMBDA x : x.kind \in {"server", "response"} /\ x.body \in Bodies)

\* C24: on a JSON session the fragments reach the browser in the order in
\* which their upstream frames arrived: a push that arrived before a
\* response is sent before it, and one that arrived after it is sent after it.
C24_FragmentsInArrivalOrder ==
  session.protocol = "rust" =>
    LET out == Carried(session.sent)
    IN \A i \in 1..Len(out), j \in 1..Len(out) :
         i < j => Arrival(out[i].body) <= Arrival(out[j].body)

\* C25: decodePacket(encodePacket(id, type, body)) is the packet (id, type,
\* body), consuming exactly the encoded frame, for int32 ids, the three
\* packet types and bodies up to MaxBody code points; the size field of the
\* frame is 4 + 4 + the byte length of the body + 2.
C25_RoundTrip ==
  (codec.stage = "decoded" /\ codec.args # << >>) =>
    /\ codec.out = Decoded("packet", codec.args[1], codec.args[2], codec.args[3], Len(codec.buf))
    /\ ReadInt32LE(codec.buf, 0) = 4 + 4 + Len(Utf8Bytes(codec.args[3])) + 2
    /\ Len(codec.buf) = 4 + ReadInt32LE(codec.buf, 0)

\* a packet with a negative id and a body of a multi-byte character and a NUL
\* went through encodePacket and decodePacket
C25_Witness ==
  /\ codec.stage = "decoded"
  /\ codec.args = <<MinInt32, SERVERDATA_AUTH, <<8364, 0>> >>
  /\ codec.out.kind = "packet"
  /\ codec.out.body = <<8364, 0>>
  /\ Len(codec.buf) = 18

\* the frame the bytes of codec.buf start with is all there
Complete == Len(codec.buf) >= 4 /\ Len(codec.buf) >= 4 + codec.size

\* C26: decodePacket returns null, without raising, when the buffer has fewer
\* than 4 bytes or fewer than 4 + size bytes; it fails as a malformed frame
\* when the declared size is below 10; on a malformed frame the client drops
\* the frame, emits an error event and stays connected (its handler returns).
C26_ShortIsNullSmallIsMalformed ==
  (codec.stage = "decoded" /\ codec.args = << >>) =>
    /\ ~Complete => codec.out = Null
    /\ (Complete /\ codec.size < 10) =>
         /\ codec.out.kind = "MalformedFrame"
         /\ codec.data.pkts = << >>
         /\ codec.data.ends = "error"

\* what the promise of execRcon has to be after its first deciding event
Due(first) ==
  CASE first[1] = "frame" -> [st |-> "resolved", val |-> MessageOf(first[2])]
    [] first[1] = "error" -> [st |-> "rejected", val |-> <<"Connection failed">>]
    [] first[1] = "close" -> [st |-> "rejected", val |-> <<"Connection closed">>]
    [] first[1] = "deadline" -> [st |-> "rejected", val |-> <<"timed out">>]
    [] OTHER -> [st |-> "pending", val |-> Empty]

\* resolve or reject is called at most once, the promise is what the first
\* of the four events makes it (pending before any of them, so no other
\* frame settles it), and once it is settled the socket is closing or closed
HelperSettledByFirst ==
  /\ helper.calls <= 1
  /\ helper.promise = Due(helper.first)
  /\ helper.promise.st # "pending" => helper.ws.state \in {"CLOSING", "CLOSED"}

\* C27: execRcon settles its promise exactly once, with whichever happens
\* first of a frame with the command's Identifier (resolve with its Message), a
\* socket error, a socket close, or the 8 s deadline (reject); frames with
\* another Identifier never settle it; after it settled the socket is closed.
C27_ExecRconSettlesOnceByFirst ==
  /\ []HelperSettledByFirst
  /\ <>(helper.promise.st # "pending" /\ helper.calls = 1)

\* the promise was resolved by the matching frame after a frame with another
\* Identifier had arrived, and the timer is cleared
C27_Witness ==
  /\ helper.promise.st = "resolved"
  /\ helper.promise.val = <<"b">>
  /\ helper.nrx = 2
  /\ ~helper.timer
  /\ helper.ws = Ws("CLOSING", "close")

\* the heartbeat is cleared once the upstream socket is closed or the browser
\* is gone, res.end() follows the upstream close, nothing is written after
\* res.end()
StreamTimerClearedAndEnded ==
  /\ (stream.ws.state = "CLOSED" \/ stream.gone) => ~stream.heartbeat
  /\ stream.ws.state = "CLOSED" => stream.res = "ended"
  /\ stream.late # "afterEnd"

\* C28: for the SSE stream the heartbeat timer is cleared on every exit path
\* (upstream close, upstream error once its close has followed, client
\* disconnect), the stream ends on upstream close or client disconnect, and
\* no heartbeat or event is written to the response after it has ended.
C28_StreamEndsClean ==
  /\ (stream.ws.state = "CLOSED" \/ stream.gone) => ~stream.heartbeat
  /\ stream.ws.state = "CLOSED" => stream.res = "ended"
  /\ stream.late = ""

\* the pending table of c holds the entry of exec call e
HasEntry(c, e) == \E i \in 1..Len(c.pending) : c.pending[i].owner = e

\* this step takes the entry of exec call e out of the pending table
Removed(e) == HasEntry(client, e) /\ ~HasEntry(client', e)

\* frame f is an event of exec call e: on the Rust client it carries the
\* call's Identifier; on the Source client it is the echo of the call's
\* sentinel, which it cannot be while the echo of an earlier call that timed
\* out without one is still to come
Belongs(f, e) ==
  IF client.proto = "rust" THEN f.id = client.execP[e].id
  ELSE /\ f.id = SENTINEL_ID
       /\ ~\E d \in Execs : /\ d < e
                            /\ client.execP[d].how = "timeout"
                            /\ ~client.execP[d].sentinel

\* an entry leaves the table in the step that settles its command
RemovedWhenSettled ==
  \A e \in Execs :
    /\ Removed(e) => (client.execP[e].st = "pending" /\ client'.execP[e].st # "pending")
    /\ HasEntry(client', e) => client'.execP[e].st = "pending"

\* an entry leaves the table by a frame or a timer of its own command only
RemovedByOwnEvent ==
  \A e \in Execs :
    Removed(e) =>
      /\ \A f \in Frames(client) : client' = Fresh(OnFrame(client, f)) => Belongs(f, e)
      /\ (client.timers # << >> /\ client' = Fresh(FireTimer(client)))
           => Head(client.timers) = <<"exec", e>>

\* C29: every command created by exec is removed from the pending table of
\* its client exactly once, by whichever of resolve, reject or timeout fires
\* first: no entry is removed without its command being settled, and none is
\* removed by an event that belongs to another command.
C29_EntryRemovedOnceByOwnSettle == [][RemovedWhenSettled /\ RemovedByOwnEvent]_vars

\* C30: the request identifiers of the commands pending together on one
\* client are pairwise distinct, however many exec calls are made before
\* earlier ones settle, more than the length of the id cycle included.
C30_PendingIdsDistinct ==
  Cardinality({issuer.ids[k] : k \in 1..Len(issuer.ids)}) = Len(issuer.ids)

\* the exec calls of c that got an identifier and an entry in the pending table
Issued(c) == {e \in Execs : c.execP[e].id # 0}

\* those of them whose promise is settled: resolved by a frame or by the
\* timeout, or rejected when the connection closed
Finished(c) == {e \in Issued(c) : c.execP[e].st # "pending"}

\* C31: in every reachable state of a client the size of its pending table is
\* the number of commands exec issued minus the number of commands that were
\* resolved or timed out (or rejected by the teardown of the connection).
C31_PendingSizeIsIssuedMinusSettled ==
  Len(client.pending) = Cardinality(Issued(client)) - Cardinality(Finished(client))

\* C32: every identifier issued for a command lies in 1..9000: it is never
\* the sentinel id 9999 of the Source client, never one of the auth-related
\* ids -1 and 0, and on the Rust client never <= 0 (never taken for a push).
C32_IssuedIdsInCycle ==
  \A k \in 1..Len(issuer.ids) :
    /\ issuer.ids[k] \in 1..IdCycle
    /\ issuer.ids[k] # SENTINEL_ID
    /\ issuer.ids[k] \notin {-1, AuthId}
    /\ issuer.proto = "rust" => issuer.ids[k] > 0

\* the last exec call took identifier 1 right after identifier 9000 was issued
C32_Witness ==
  /\ issuer.calls > 0
  /\ Len(issuer.ids) >= 2
  /\ issuer.ids[Len(issuer.ids) - 1] = IdCycle
  /\ issuer.ids[Len(issuer.ids)] = 1

\* the two frames exec writes for command cmd with identifier id
ExecFrames(id, cmd) ==
  << [id |-> id, type |-> SERVERDATA_EXECCOMMAND, body |-> cmd],
     [id |-> SENTINEL_ID, type |-> SERVERDATA_RESPONSE_VALUE, body |-> ""] >>

\* exec call e, made now on the Source client and not rejected, writes its
\* two frames and nothing else
ExecWritesPair(e) ==
  LET c2 == Exec(Fresh(client), e, "status")
  IN c2.execP[e].st = "pending" => c2.written = ExecFrames(c2.execP[e].id, "status")

\* the echo of a sentinel
SentinelFrame == [id |-> SENTINEL_ID, type |-> SERVERDATA_RESPONSE_VALUE, body |-> Empty]

\* a sentinel frame that arrives now resolves the oldest pending command with
\* its accumulated body and removes its entry alone; with nothing pending it
\* changes nothing
SentinelResolvesOldest ==
  LET c2 == HandlePacket(Fresh(client), SentinelFrame)
  IN IF client.pending = << >>
       THEN c2 = Fresh(client)
       ELSE LET entry == Head(client.pending)
            IN /\ \A i \in 2..Len(client.pending) : entry.owner < client.pending[i].owner
               /\ client.execP[entry.owner].st = "pending"
               /\ c2.execP[entry.owner].st = "resolved"
               /\ c2.execP[entry.owner].val = entry.body
               /\ c2.settled = << <<"exec", entry.owner>> >>
               /\ c2.pending = Tail(client.pending)
               /\ \A d \in Execs \ {entry.owner} : c2.execP[d] = client.execP[d]

\* C33: each exec of the Source client writes exactly two frames in this
\* order: EXECCOMMAND with the command's id, then an empty RESPONSE_VALUE with
\* the sentinel id 9999; an inbound sentinel frame resolves exactly one
\* pending command, the oldest, leaves every other entry untouched, and is
\* ignored when nothing is pending.
C33_ExecPairAndSentinelOldest ==
  client.proto = "source" =>
    /\ NextExec(client) # 0 => ExecWritesPair(NextExec(client))
    /\ SentinelResolvesOldest

\* the commands of client c that were sent and are not settled
InFlight(c) == {e \in Execs : c.execP[e].id # 0 /\ c.execP[e].st = "pending"}

\* C34: exec calls on a Source client are serialized: a session on the Source
\* protocol never has more than one command in flight on a client, also when
\* the browser sends several commands before the first response arrives.
C34_BinaryExecSerialized ==
  session.protocol = "source" =>
    \A k \in Clients :
      /\ Cardinality(InFlight(session.clients[k])) <= 1
      /\ Len(session.clients[k].pending) <= 1

\* C36: the drain loop of the Source client's receive buffer terminates for
\* every buffer content, frames whose size field is zero or negative
\* included: each iteration stops on an incomplete frame or consumes at
\* least one byte.
C36_DrainTerminates ==
  codec.stage = "decoded" => codec.data.ends # "spins"

\* the packets of the stream as decodePacket returns them
Sent(packets) ==
  [i \in 1..Len(packets) |->
     Decoded("packet", packets[i][1], packets[i][2], packets[i][3],
             Len(encodePacket(packets[i][1], packets[i][2], packets[i][3])))]

\* C35: feeding the receive buffer of the Source client a stream of
\* well-formed frames one byte at a time, or in any other chunking,
\* dispatches the same packets as feeding it in one chunk: after any number
\* of chunks the packets dispatched and the bytes buffered are those of the
\* bytes received so far taken as one chunk; the partial frame stays
\* buffered; the packets are dispatched in arrival order.
C35_ChunkingIrrelevant ==
  feed.stage = "on" =>
    LET whole == OnData(SubSeq(feed.bytes, 1, feed.sent))
    IN /\ feed.ends = "waits"
       /\ feed.pkts = whole.pkts
       /\ feed.recvBuf = whole.recvBuf
       /\ feed.pkts \o OnData(feed.recvBuf \o SubSeq(feed.bytes, feed.sent + 1, Len(feed.bytes))).pkts
            = Sent(feed.packets)
       /\ feed.sent = Len(feed.bytes) => feed.recvBuf = << >>

\* two frames, the first with a three-byte character, have arrived one byte
\* at a time and both were dispatched
C35_Witness ==
  /\ feed.stage = "on"
  /\ Len(feed.packets) = 2
  /\ feed.packets[1][3] = <<8364>>
  /\ feed.sent = Len(feed.bytes)
  /\ feed.chunks = Len(feed.bytes)
  /\ Len(feed.pkts) = 2

\* C37: on a Source client the sentinel echo of a command that has timed out
\* never completes a later command: a command issued after an earlier one
\* timed out is not resolved by the first frame with the sentinel id that
\* arrives since the earlier command was sent, which is the echo of the
\* earlier command's sentinel.
C37_LateEchoCompletesNothing ==
  [][ (client.proto = "source" /\ OneTransport(client)) =>
        \A e \in Execs :
          (client.execP[e].st = "pending" /\ client.execP[e].late
             /\ client'.execP[e].how = "sentinel")
            => ~EchoDue(client, e)
    ]_vars

\* the timer of exec call e fires in this step, the call being settled already
StaleTimerFires(e) ==
  /\ client.execP[e].st # "pending"
  /\ ~client.execP[e].fired
  /\ client'.execP[e].fired

\* C38: the timeout timer of a command that is already settled never removes
\* or settles another command: when an identifier is issued again after the
\* id cycle has wrapped, the stale timer of the earlier holder of the
\* identifier leaves the pending entry of the newer command in place.
C38_StaleTimerTouchesNothing ==
  [][ \A e \in Execs :
        StaleTimerFires(e) =>
          /\ client'.pending = client.pending
          /\ \A d \in Execs \ {e} : client'.execP[d].st = client.execP[d].st
    ]_vars

\* client k of the session has authenticated and is connected
Authentic(k) ==
  /\ session.clients[k].connP[1].st = "resolved"
  /\ Connected(session.clients[k])

\* C39: whenever the authenticated flag of a session is true, the client the
\* session holds is the one whose connect() succeeded and it is still
\* connected: no event of an earlier or superseded client (a late connect
\* success, a late close) sets the flag for, or leaves it set on, a client
\* that did not authenticate or is no longer connected.
C39_AuthenticatedMeansCurrentClient ==
  (session.protocol # "none" /\ ~session.crashed /\ session.authenticated) =>
    /\ session.rcon # 0
    /\ Authentic(session.rcon)

\* frame f carries the identifier of a command of client k that is settled;
\* on the Source client f is a response frame, not the echo of a sentinel
ForAnswered(k, f) ==
  /\ f.id # SENTINEL_ID
  /\ \E e \in Execs :
       /\ session.clients[k].execP[e].id = f.id
       /\ session.clients[k].execP[e].id # 0
       /\ session.clients[k].execP[e].st = "resolved"

\* frame f arrives at client k in this step
Arrives(k, f) ==
  /\ k <= session.made
  /\ CanFrame(session.clients[k], 1)
  /\ Room(session.clients[k], f)
  /\ session' = Ran(Quiet(session), k, OnFrame(Quiet(session).clients[k], f))

\* C40: each command a session executes produces at most one fragment to the
\* browser: once a command is answered, by its response or by its timeout, a
\* response frame for it that arrives later produces no fragment.
C40_LateResponseSendsNothing ==
  [][ \A k \in Clients : \A f \in Frames(session.clients[k]) :
        (~session.crashed /\ ForAnswered(k, f) /\ Arrives(k, f)) => session'.sent = << >>
    ]_vars
====
